---- MODULE Spec2Model ----
(***************************************************************************)
(* Model of sc4-disable-demolition-animation                               *)
(* (src/src/DisableDemolitionAnimationDllDirector.cpp).                    *)
(*                                                                         *)
(* The plugin's OnStart detects the game version, looks up the address of  *)
(* one call site, and overwrites the 5 bytes of that near CALL so that it  *)
(* calls IsOccupantTooSmallForDemolitionAnimation, which always answers    *)
(* true.                                                                   *)
(*                                                                         *)
(* 32-bit values (uintptr_t on the x86 target) are pairs <<hi, lo>> of     *)
(* 16-bit halves, so that all arithmetic is modulo 2^32 and stays inside   *)
(* the model checker's integer range.                                      *)
(***************************************************************************)
EXTENDS Integers, Sequences, FiniteSets

\* ------------------------------------------------------------------------
\* Bounds of the model
\* ------------------------------------------------------------------------

\* How many times the direct driver of InstallCallHook calls it (SpecHook).
MaxCalls == 2

\* How many times the host reaches the patched call site.
MaxReplacementCalls == 2

\* ------------------------------------------------------------------------
\* 32-bit words
\* ------------------------------------------------------------------------

Half == 65536

W(hi, lo) == <<hi, lo>>

\* a + b modulo 2^32
Add32(a, b) ==
    LET lo == a[2] + b[2]
    IN  <<(a[1] + b[1] + (lo \div Half)) % Half, lo % Half>>

\* a - b modulo 2^32 (unsigned wrap-around, as uintptr_t arithmetic)
Sub32(a, b) ==
    LET lo     == a[2] - b[2]
        borrow == IF lo < 0 THEN 1 ELSE 0
    IN  <<(a[1] - b[1] - borrow + 2 * Half) % Half, (lo + Half) % Half>>

\* The 4 bytes of a word as an x86 store lays them out: least significant first.
LittleEndian(w) == <<w[2] % 256, w[2] \div 256, w[1] % 256, w[1] \div 256>>

\* The word a 4-byte little-endian load reads.
FromLittleEndian(b) == <<b[3] + 256 * b[4], b[1] + 256 * b[2]>>

\* ------------------------------------------------------------------------
\* Program constants
\* ------------------------------------------------------------------------

\* case 641:
SupportedGameVersion == 641

\* hookTargetAddress = 0x4673bf  (0x0046 : 0x73bf)
HookTargetAddress641 == W(70, 29631)

\* uintptr_t hookTargetAddress = 0: the "no entry" sentinel
NoHookTarget == W(0, 0)

\* 0xE8, the near CALL rel32 opcode
CallOpcode == 232

\* The length VirtualProtect is asked to make writable
HookLength == 5

\* The constant subtracted in the displacement (length of CALL rel32)
CallInstructionLength == 5

\* Variant: uintptr_t of a 64-bit build.
PointerBytes_64 == 4 + 4

\* sizeof(uintptr_t) on the 32-bit target: the width of the second store
PointerBytes == 4

\* PAGE_EXECUTE_READWRITE
PAGE_EXECUTE_READWRITE == 64

\* uint16_t gameVersion: the largest value
MaxGameVersion == 65535

\* ------------------------------------------------------------------------
\* Inputs drawn by the initial states
\* ------------------------------------------------------------------------

\* Versions the detector may report in Spec: unknown (0), the retail builds
\* around the supported one, and the ends of the uint16_t range.
GameVersions == {0, 610, 613, 638, 640, 641, 642, 65535}

\* Every uint16_t (SpecVersions).
AllGameVersions == 0 .. MaxGameVersion

\* Addresses the replacement function may be loaded at: above and below the
\* call site, and at the ends of the address space.
ReplacementAddresses == {W(4096, 4660), W(16, 0), W(65535, 65520)}

\* Call sites InstallCallHook is driven with in SpecHook: the spec's example
\* 0x1000, the real call site, a range that straddles a page boundary
\* (0x1FFD) and a high address (0xFFFF0000).
HookTargets == {W(0, 4096), HookTargetAddress641, W(0, 8189), W(65535, 0)}

\* Replacement addresses InstallCallHook is driven with in SpecHook: the
\* spec's example 0x2000, 0 and 0x10 (below every target: the displacement
\* wraps), target + 5 of 0x1000 (displacement 0) and 0xFFFFFFFF.
HookFuncs == {W(0, 8192), W(0, 0), W(0, 16), W(0, 4101), W(65535, 65535)}

\* The bytes of host memory the model keeps: one before each call site to
\* nine after it (room for an 8-byte store after the opcode).
Window(t) == {Sub32(t, W(0, 1))} \cup {Add32(t, W(0, k)) : k \in 0 .. 9}

MemAddrs == UNION {Window(t) : t \in HookTargets}

\* The page (4 KiB) an address lies in.
PageOf(a) == <<a[1], a[2] \div 4096>>

Pages == {PageOf(a) : a \in MemAddrs}

\* Contents host memory may have before the patch.
InitialMemories ==
    { [a \in MemAddrs |-> 0],
      [a \in MemAddrs |-> 255],
      [a \in MemAddrs |-> (a[2] * 7 + a[1] + 1) % 256] }

\* Protections the host's pages may have: PAGE_EXECUTE_READ (0x20),
\* PAGE_READONLY (0x02), PAGE_EXECUTE_READWRITE (0x40).
InitialProtections == {32, 2, PAGE_EXECUTE_READWRITE}

Builds == {"debug", "release"}

\* What the host may pass as the first argument of the patched call: a null
\* pointer, or an occupant whose property holder has no exemplar-name
\* property, one of another type, or a char array (empty, a name, or a null
\* string pointer).
Occupants ==
    { [isNull |-> TRUE,  hasName |-> FALSE, type |-> "none",        szName |-> "null"],
      [isNull |-> FALSE, hasName |-> FALSE, type |-> "none",        szName |-> "null"],
      [isNull |-> FALSE, hasName |-> TRUE,  type |-> "Uint32",      szName |-> "null"],
      [isNull |-> FALSE, hasName |-> TRUE,  type |-> "RZCharArray", szName |-> ""],
      [isNull |-> FALSE, hasName |-> TRUE,  type |-> "RZCharArray", szName |-> "Tower"],
      [isNull |-> FALSE, hasName |-> TRUE,  type |-> "RZCharArray", szName |-> "null"] }

\* The second argument (float* unknown): never read.
FloatPointers == {"null", "valid"}

\* ------------------------------------------------------------------------
\* State
\* ------------------------------------------------------------------------

VARIABLES
    build,            \* _DEBUG defined or not
    hostVersion,      \* the version of the running game binary
    pc,               \* position of the install sequence
    gameVersion,      \* InstallDemolitionAnimationHook: const uint16_t gameVersion
    hookTargetAddress,\* InstallDemolitionAnimationHook: uintptr_t hookTargetAddress
    targetAddress,    \* InstallCallHook: parameter
    pfnFunc,          \* InstallCallHook: parameter (address of the replacement)
    oldProtect,       \* InstallCallHook: DWORD oldProtect
    mem,              \* host memory, byte per address
    prot,             \* protection of each host page
    logCalls,         \* the calls made to the Logger, in order
    onStartReturn,    \* <<>> until OnStart returns, then <<its value>>
    calls,            \* number of calls of InstallCallHook
    writes,           \* number of bytes stored by InstallCallHook
    protectRequests,  \* the VirtualProtect calls made, with their results
    origMem,          \* host memory before the plugin started
    origProt,         \* page protections before the plugin started
    memAfterFirstCall,\* host memory when the first InstallCallHook returned
    protAtEntry,      \* page protections when InstallCallHook was last entered
    replCalls,        \* number of calls of the replacement function
    replResult        \* "none", "true" (returned true) or "fault"

vars == <<build, hostVersion, pc, gameVersion, hookTargetAddress, targetAddress,
          pfnFunc, oldProtect, mem, prot, logCalls, onStartReturn, calls, writes,
          protectRequests, origMem, origProt, memAfterFirstCall, protAtEntry,
          replCalls, replResult>>

hostVars == <<build, hostVersion, origMem, origProt>>

\* ------------------------------------------------------------------------
\* Initial states
\* ------------------------------------------------------------------------

\* The state every specification starts from, but for the inputs.
InitCommon ==
    /\ gameVersion = 0
    /\ hookTargetAddress = NoHookTarget
    /\ oldProtect = 0
    /\ logCalls = <<>>
    /\ onStartReturn = <<>>
    /\ calls = 0
    /\ writes = 0
    /\ protectRequests = <<>>
    /\ origMem = mem
    /\ origProt = prot
    /\ memAfterFirstCall = mem
    /\ protAtEntry = prot
    /\ replCalls = 0
    /\ replResult = "none"

\* The plugin is loaded, OnStart has not been called.
Init ==
    /\ build \in Builds
    /\ hostVersion \in GameVersions
    /\ pc = "NotStarted"
    /\ targetAddress = NoHookTarget
    /\ pfnFunc \in ReplacementAddresses
    /\ mem \in InitialMemories
    /\ \E p \in InitialProtections : prot = [g \in Pages |-> p]
    /\ InitCommon

\* As Init, with every uint16_t version and one host memory.
InitVersions ==
    /\ build \in Builds
    /\ hostVersion \in AllGameVersions
    /\ pc = "NotStarted"
    /\ targetAddress = NoHookTarget
    /\ pfnFunc = W(4096, 4660)
    /\ mem = [a \in MemAddrs |-> (a[2] * 7 + a[1] + 1) % 256]
    /\ prot = [g \in Pages |-> 32]
    /\ InitCommon

\* InstallCallHook about to be called directly with any target and function.
InitHook ==
    /\ build = "release"
    /\ hostVersion = SupportedGameVersion
    /\ pc = "hook_idle"
    /\ targetAddress \in HookTargets
    /\ pfnFunc \in HookFuncs
    /\ mem \in InitialMemories
    /\ \E p \in InitialProtections : prot = [g \in Pages |-> p]
    /\ InitCommon

\* ------------------------------------------------------------------------
\* Helpers
\* ------------------------------------------------------------------------

\* Variant: a default case that assigns the address too.
ResolveHookTargetAddress_Default(version) == HookTargetAddress641

\* Variant: case 640 falling through to case 641.
ResolveHookTargetAddress_Also640(version) ==
    IF version \in {640, SupportedGameVersion} THEN HookTargetAddress641 ELSE NoHookTarget

\* switch (gameVersion) { case 641: hookTargetAddress = 0x4673bf; }
ResolveHookTargetAddress(version) ==
    IF version = SupportedGameVersion THEN HookTargetAddress641 ELSE NoHookTarget

\* Variant: the displacement taken from the start of the instruction.
Displacement_FromInstructionStart(target, func) == Sub32(func, target)

\* ((uintptr_t)pfnFunc) - targetAddress - 5
Displacement(target, func) ==
    Sub32(Sub32(func, target), W(0, CallInstructionLength))

\* The pages holding the bytes addr .. addr + size - 1.
PagesOfRange(addr, size) == {PageOf(Add32(addr, W(0, k))) : k \in 0 .. size - 1}

\* Memory m with bytes[1..n] stored at addr, addr + 1, ...
StoreBytes(m, addr, bytes) ==
    [a \in DOMAIN m |->
        IF \E i \in 1 .. Len(bytes) : a = Add32(addr, W(0, i - 1))
        THEN bytes[CHOOSE i \in 1 .. Len(bytes) : a = Add32(addr, W(0, i - 1))]
        ELSE m[a]]

\* The bytes a store of the uintptr_t w writes: sizeof(uintptr_t) of them,
\* least significant first.
PointerImage(w) ==
    [i \in 1 .. PointerBytes |-> IF i <= 4 THEN LittleEndian(w)[i] ELSE 0]

\* The 4 bytes of m at addr .. addr + 3.
LoadBytes(m, addr) == [i \in 1 .. 4 |-> m[Add32(addr, W(0, i - 1))]]

\* Where the processor goes when it executes the instruction at site: the
\* destination of a near CALL rel32 (the next instruction's address plus
\* the displacement), or "other" when the byte at site is not 0xE8.
CallDestination(m, site) ==
    IF m[site] = CallOpcode
    THEN Add32(Add32(site, W(0, CallInstructionLength)),
               FromLittleEndian(LoadBytes(m, Add32(site, W(0, 1)))))
    ELSE <<"other">>

\* The outcomes of GetOccupantExemplarName(pOccupant). Dereferencing a null
\* occupant, or assigning a null char pointer to a std::string, is undefined:
\* the call faults, or goes on with an empty name.
GetOccupantExemplarName(pOccupant) ==
    IF pOccupant.isNull
    THEN {[fault |-> TRUE, name |-> ""], [fault |-> FALSE, name |-> ""]}
    ELSE IF ~pOccupant.hasName
    THEN {[fault |-> FALSE, name |-> ""]}
    ELSE IF pOccupant.type # "RZCharArray"
    THEN {[fault |-> FALSE, name |-> ""]}
    ELSE IF pOccupant.szName = "null"
    THEN {[fault |-> TRUE, name |-> ""], [fault |-> FALSE, name |-> ""]}
    ELSE {[fault |-> FALSE, name |-> pOccupant.szName]}

\* ------------------------------------------------------------------------
\* OnStart and InstallDemolitionAnimationHook
\* ------------------------------------------------------------------------

\* The host calls OnStart, which calls InstallDemolitionAnimationHook.
OnStart ==
    /\ pc = "NotStarted"
    /\ pc' = "Detecting"
    /\ UNCHANGED <<gameVersion, hookTargetAddress, targetAddress, pfnFunc,
                   oldProtect, mem, prot, logCalls, onStartReturn, calls, writes,
                   protectRequests, memAfterFirstCall, protAtEntry, replCalls,
                   replResult>>
    /\ UNCHANGED hostVars

\* const uint16_t gameVersion = SC4VersionDetection::GetInstance().GetGameVersion();
GetGameVersion ==
    /\ pc = "Detecting"
    /\ gameVersion' = hostVersion
    /\ pc' = "Resolving"
    /\ UNCHANGED <<hookTargetAddress, targetAddress, pfnFunc,
                   oldProtect, mem, prot, logCalls, onStartReturn, calls, writes,
                   protectRequests, memAfterFirstCall, protAtEntry, replCalls,
                   replResult>>
    /\ UNCHANGED hostVars

\* uintptr_t hookTargetAddress = 0; switch (gameVersion) ...
SwitchGameVersion ==
    /\ pc = "Resolving"
    /\ hookTargetAddress' = ResolveHookTargetAddress(gameVersion)
    /\ pc' = "Resolved"
    /\ UNCHANGED <<gameVersion, targetAddress, pfnFunc,
                   oldProtect, mem, prot, logCalls, onStartReturn, calls, writes,
                   protectRequests, memAfterFirstCall, protAtEntry, replCalls,
                   replResult>>
    /\ UNCHANGED hostVars

\* if (hookTargetAddress != 0): InstallCallHook(hookTargetAddress, &IsOccupant...)
CallInstallCallHook ==
    /\ pc = "Resolved"
    /\ hookTargetAddress # NoHookTarget
    /\ targetAddress' = hookTargetAddress
    /\ oldProtect' = 0
    /\ calls' = calls + 1
    /\ protAtEntry' = prot
    /\ pc' = "hook_entry"
    /\ UNCHANGED <<gameVersion, hookTargetAddress, pfnFunc,
                   mem, prot, logCalls, onStartReturn, writes,
                   protectRequests, memAfterFirstCall, replCalls,
                   replResult>>
    /\ UNCHANGED hostVars

\* else: logger.WriteLineFormatted(Error, "Unsupported game version: %d", gameVersion)
LogUnsupported ==
    /\ pc = "Resolved"
    /\ hookTargetAddress = NoHookTarget
    /\ logCalls' = Append(logCalls, <<"Error", "Unsupported game version: %d", gameVersion>>)
    /\ pc' = "logged"
    /\ UNCHANGED <<gameVersion, hookTargetAddress, targetAddress, pfnFunc,
                   oldProtect, mem, prot, onStartReturn, calls, writes,
                   protectRequests, memAfterFirstCall, protAtEntry, replCalls,
                   replResult>>
    /\ UNCHANGED hostVars

\* InstallCallHook returned: logger.WriteLine(Info, "Disabled the occupant ...")
LogPatched ==
    /\ pc = "hook_returned"
    /\ logCalls' = Append(logCalls, <<"Info", "Disabled the occupant demolition animations.", 0>>)
    /\ pc' = "logged"
    /\ UNCHANGED <<gameVersion, hookTargetAddress, targetAddress, pfnFunc,
                   oldProtect, mem, prot, onStartReturn, calls, writes,
                   protectRequests, memAfterFirstCall, protAtEntry, replCalls,
                   replResult>>
    /\ UNCHANGED hostVars

\* Variant: the success line written after the try block, so also after a catch.
CatchResultException_FallsThrough ==
    /\ pc = "hook_threw"
    /\ logCalls' = Append(Append(logCalls,
                       <<"Error", "Failed to install the demolition animations patch.", 0>>),
                       <<"Info", "Disabled the occupant demolition animations.", 0>>)
    /\ pc' = "logged"
    /\ UNCHANGED <<gameVersion, hookTargetAddress, targetAddress, pfnFunc,
                   oldProtect, mem, prot, onStartReturn, calls, writes,
                   protectRequests, memAfterFirstCall, protAtEntry, replCalls,
                   replResult>>
    /\ UNCHANGED hostVars

\* catch (const wil::ResultException& e): logger.WriteLineFormatted(Error, "Failed ...")
CatchResultException ==
    /\ pc = "hook_threw"
    /\ logCalls' = Append(logCalls, <<"Error", "Failed to install the demolition animations patch.", 0>>)
    /\ pc' = "logged"
    /\ UNCHANGED <<gameVersion, hookTargetAddress, targetAddress, pfnFunc,
                   oldProtect, mem, prot, onStartReturn, calls, writes,
                   protectRequests, memAfterFirstCall, protAtEntry, replCalls,
                   replResult>>
    /\ UNCHANGED hostVars

\* Variant: OnStart reporting whether the patch was installed.
OnStartReturn_PropagatesFailure ==
    /\ pc = "logged"
    /\ onStartReturn' = <<\E i \in 1 .. Len(logCalls) : logCalls[i][1] = "Info">>
    /\ pc' = "returned"
    /\ UNCHANGED <<gameVersion, hookTargetAddress, targetAddress, pfnFunc,
                   oldProtect, mem, prot, logCalls, calls, writes,
                   protectRequests, memAfterFirstCall, protAtEntry, replCalls,
                   replResult>>
    /\ UNCHANGED hostVars

\* InstallDemolitionAnimationHook returns; OnStart: return true;
OnStartReturn ==
    /\ pc = "logged"
    /\ onStartReturn' = <<TRUE>>
    /\ pc' = "returned"
    /\ UNCHANGED <<gameVersion, hookTargetAddress, targetAddress, pfnFunc,
                   oldProtect, mem, prot, logCalls, calls, writes,
                   protectRequests, memAfterFirstCall, protAtEntry, replCalls,
                   replResult>>
    /\ UNCHANGED hostVars

\* ------------------------------------------------------------------------
\* InstallCallHook
\* ------------------------------------------------------------------------

\* Variant: VirtualProtect's result ignored, the stores made regardless.
VirtualProtectCall_Unchecked ==
    /\ pc = "hook_entry"
    /\ \E ok \in BOOLEAN :
        /\ protectRequests' = Append(protectRequests,
               [addr |-> targetAddress, size |-> HookLength,
                newProtect |-> PAGE_EXECUTE_READWRITE, ok |-> ok])
        /\ prot' = IF ok
                   THEN [g \in DOMAIN prot |->
                            IF g \in PagesOfRange(targetAddress, HookLength)
                            THEN PAGE_EXECUTE_READWRITE ELSE prot[g]]
                   ELSE prot
        /\ oldProtect' = IF ok THEN prot[PageOf(targetAddress)] ELSE oldProtect
        /\ pc' = "hook_write_opcode"
    /\ UNCHANGED <<gameVersion, hookTargetAddress, targetAddress, pfnFunc,
                   mem, logCalls, onStartReturn, calls, writes,
                   memAfterFirstCall, protAtEntry, replCalls, replResult>>
    /\ UNCHANGED hostVars

\* THROW_IF_WIN32_BOOL_FALSE(VirtualProtect(targetAddress, 5,
\*     PAGE_EXECUTE_READWRITE, &oldProtect)): the system grants or refuses the
\* change; refused, nothing changes and wil::ResultException is thrown.
VirtualProtectCall ==
    /\ pc = "hook_entry"
    /\ \E ok \in BOOLEAN :
        /\ protectRequests' = Append(protectRequests,
               [addr |-> targetAddress, size |-> HookLength,
                newProtect |-> PAGE_EXECUTE_READWRITE, ok |-> ok])
        /\ prot' = IF ok
                   THEN [g \in DOMAIN prot |->
                            IF g \in PagesOfRange(targetAddress, HookLength)
                            THEN PAGE_EXECUTE_READWRITE ELSE prot[g]]
                   ELSE prot
        /\ oldProtect' = IF ok THEN prot[PageOf(targetAddress)] ELSE oldProtect
        /\ pc' = IF ok THEN "hook_write_opcode" ELSE "hook_threw"
    /\ UNCHANGED <<gameVersion, hookTargetAddress, targetAddress, pfnFunc,
                   mem, logCalls, onStartReturn, calls, writes,
                   memAfterFirstCall, protAtEntry, replCalls, replResult>>
    /\ UNCHANGED hostVars

\* *((uint8_t*)targetAddress) = 0xE8;
WriteOpcode ==
    /\ pc = "hook_write_opcode"
    /\ mem' = StoreBytes(mem, targetAddress, <<CallOpcode>>)
    /\ writes' = writes + 1
    /\ pc' = "hook_write_disp"
    /\ UNCHANGED <<gameVersion, hookTargetAddress, targetAddress, pfnFunc,
                   oldProtect, prot, logCalls, onStartReturn, calls,
                   protectRequests, memAfterFirstCall, protAtEntry, replCalls,
                   replResult>>
    /\ UNCHANGED hostVars

\* Variant: += in place of =, the displacement added to the bytes in place.
WriteDisplacement_Accumulate ==
    /\ pc = "hook_write_disp"
    /\ mem' = StoreBytes(mem, Add32(targetAddress, W(0, 1)),
                         PointerImage(Add32(
                             FromLittleEndian(LoadBytes(mem, Add32(targetAddress, W(0, 1)))),
                             Displacement(targetAddress, pfnFunc))))
    /\ writes' = writes + PointerBytes
    /\ pc' = "hook_returned"
    /\ UNCHANGED <<gameVersion, hookTargetAddress, targetAddress, pfnFunc,
                   oldProtect, prot, logCalls, onStartReturn, calls,
                   protectRequests, memAfterFirstCall, protAtEntry, replCalls,
                   replResult>>
    /\ UNCHANGED hostVars

\* Variant: the protection put back to oldProtect after the stores.
WriteDisplacement_RestoresProtection ==
    /\ pc = "hook_write_disp"
    /\ mem' = StoreBytes(mem, Add32(targetAddress, W(0, 1)),
                         PointerImage(Displacement(targetAddress, pfnFunc)))
    /\ prot' = [g \in DOMAIN prot |->
                   IF g \in PagesOfRange(targetAddress, HookLength)
                   THEN oldProtect ELSE prot[g]]
    /\ writes' = writes + PointerBytes
    /\ pc' = "hook_returned"
    /\ UNCHANGED <<gameVersion, hookTargetAddress, targetAddress, pfnFunc,
                   oldProtect, logCalls, onStartReturn, calls,
                   protectRequests, memAfterFirstCall, protAtEntry, replCalls,
                   replResult>>
    /\ UNCHANGED hostVars

\* *((uintptr_t*)(targetAddress + 1)) = ((uintptr_t)pfnFunc) - targetAddress - 5;
WriteDisplacement ==
    /\ pc = "hook_write_disp"
    /\ mem' = StoreBytes(mem, Add32(targetAddress, W(0, 1)),
                         PointerImage(Displacement(targetAddress, pfnFunc)))
    /\ writes' = writes + PointerBytes
    /\ pc' = "hook_returned"
    /\ UNCHANGED <<gameVersion, hookTargetAddress, targetAddress, pfnFunc,
                   oldProtect, prot, logCalls, onStartReturn, calls,
                   protectRequests, memAfterFirstCall, protAtEntry, replCalls,
                   replResult>>
    /\ UNCHANGED hostVars

\* InstallCallHook(targetAddress, pfnFunc) called directly, again with the
\* same arguments once the previous call has returned or thrown.
HookDriverCall ==
    /\ pc \in {"hook_idle", "hook_returned", "hook_threw"}
    /\ calls < MaxCalls
    /\ calls' = calls + 1
    /\ oldProtect' = 0
    /\ protAtEntry' = prot
    /\ memAfterFirstCall' = IF calls = 1 THEN mem ELSE memAfterFirstCall
    /\ pc' = "hook_entry"
    /\ UNCHANGED <<gameVersion, hookTargetAddress, targetAddress, pfnFunc,
                   mem, prot, logCalls, onStartReturn, writes,
                   protectRequests, replCalls, replResult>>
    /\ UNCHANGED hostVars

\* ------------------------------------------------------------------------
\* The replacement function
\* ------------------------------------------------------------------------

\* bool __cdecl IsOccupantTooSmallForDemolitionAnimation(pOccupant, unknown)
IsOccupantTooSmallForDemolitionAnimation(pOccupant, unknown) ==
    /\ replCalls' = replCalls + 1
    /\ IF build = "debug"
       THEN \E r \in GetOccupantExemplarName(pOccupant) :
               IF r.fault
               THEN /\ replResult' = "fault"
                    /\ UNCHANGED logCalls
               ELSE /\ logCalls' = IF r.name # ""
                                   THEN Append(logCalls, <<"Debug", "Demolished occupant '%s'.", r.name>>)
                                   ELSE logCalls
                    /\ replResult' = "true"
       ELSE /\ replResult' = "true"
            /\ UNCHANGED logCalls
    /\ UNCHANGED <<pc, gameVersion, hookTargetAddress, targetAddress, pfnFunc,
                   oldProtect, mem, prot, onStartReturn, calls, writes,
                   protectRequests, memAfterFirstCall, protAtEntry>>
    /\ UNCHANGED hostVars

\* The host executes the call site: once it holds a CALL to the replacement,
\* the replacement runs, with whatever arguments the host has. A fault ends
\* the host.
HostReachesCallSite ==
    /\ pc = "returned"
    /\ replResult # "fault"
    /\ replCalls < MaxReplacementCalls
    /\ CallDestination(mem, HookTargetAddress641) = pfnFunc
    /\ \E pOccupant \in Occupants, unknown \in FloatPointers :
          IsOccupantTooSmallForDemolitionAnimation(pOccupant, unknown)

\* ------------------------------------------------------------------------
\* Specifications
\* ------------------------------------------------------------------------

\* The steps of the install sequence OnStart runs to completion.
InstallStep ==
    \/ GetGameVersion
    \/ SwitchGameVersion
    \/ CallInstallCallHook
    \/ LogUnsupported
    \/ VirtualProtectCall
    \/ WriteOpcode
    \/ WriteDisplacement
    \/ LogPatched
    \/ CatchResultException
    \/ OnStartReturn

Next ==
    \/ OnStart
    \/ GetGameVersion
    \/ SwitchGameVersion
    \/ CallInstallCallHook
    \/ LogUnsupported
    \/ VirtualProtectCall
    \/ WriteOpcode
    \/ WriteDisplacement
    \/ LogPatched
    \/ CatchResultException
    \/ OnStartReturn
    \/ HostReachesCallSite

NextHook ==
    \/ HookDriverCall
    \/ VirtualProtectCall
    \/ WriteOpcode
    \/ WriteDisplacement

\* The plugin in a host of one of GameVersions.
Spec == Init /\ [][Next]_vars

\* The same, OnStart's synchronous sequence running to its end once started.
FairSpec == Init /\ [][Next]_vars /\ WF_vars(InstallStep)

\* The plugin in a host of any uint16_t version.
SpecVersions == InitVersions /\ [][Next]_vars

\* InstallCallHook driven directly with any target and replacement.
SpecHook == InitHook /\ [][NextHook]_vars

\* ------------------------------------------------------------------------
\* Observations used by the properties
\* ------------------------------------------------------------------------

\* The last VirtualProtect call succeeded / failed.
ProtectSucceeded ==
    /\ protectRequests # <<>>
    /\ protectRequests[Len(protectRequests)].ok

ProtectFailed ==
    /\ protectRequests # <<>>
    /\ ~protectRequests[Len(protectRequests)].ok

\* A line of this level and text has been handed to the logger.
Logged(level, text) ==
    \E i \in 1 .. Len(logCalls) : logCalls[i][1] = level /\ logCalls[i][2] = text

\* The orchestrator's terminal states, read off what it logged.
Patched == Logged("Info", "Disabled the occupant demolition animations.")

Failed == Logged("Error", "Failed to install the demolition animations patch.")

Unsupported == Logged("Error", "Unsupported game version: %d")

Terminal == Patched \/ Failed \/ Unsupported

\* The install sequence is past its outcome.
Finished == pc \in {"logged", "returned"}

\* The 5 bytes of the call site of InstallCallHook's current arguments.
HookRange == {Add32(targetAddress, W(0, k)) : k \in 0 .. 4}

\* ------------------------------------------------------------------------
\* Properties
\* ------------------------------------------------------------------------

\* C1: with the address resolved and VirtualProtect refusing the change, the
\* install sequence ends Failed (the error line logged, the success line
\* not), no byte is stored and host memory is what it was; no store is ever
\* made in a state where the protection change has not succeeded.
C1_FailedProtectionWritesNothing ==
    /\ ~ProtectSucceeded => (writes = 0 /\ mem = origMem)
    /\ (ProtectFailed /\ Finished) =>
          /\ Failed
          /\ ~Patched
          /\ writes = 0
          /\ \A k \in 0 .. 4 :
                mem[Add32(HookTargetAddress641, W(0, k))]
                    = origMem[Add32(HookTargetAddress641, W(0, k))]

\* C1 witness: OnStart has returned after a refused protection change.
C1_Witness ==
    /\ pc = "returned"
    /\ hostVersion = SupportedGameVersion
    /\ ProtectFailed
    /\ Failed
    /\ writes = 0

\* C2: for every version other than 641 the sequence logs the unsupported
\* version and nothing else happens: InstallCallHook is never called, no
\* protection change is requested, no byte is stored, memory and
\* protections are unchanged.
C2_UnsupportedTouchesNothing ==
    hostVersion # SupportedGameVersion =>
        /\ calls = 0
        /\ protectRequests = <<>>
        /\ writes = 0
        /\ mem = origMem
        /\ prot = origProt
        /\ ~Patched
        /\ ~Failed
        /\ Finished =>
              /\ Len(logCalls) = 1
              /\ logCalls[1][1] = "Error"
              /\ logCalls[1][2] = "Unsupported game version: %d"
              /\ logCalls[1][3] = hostVersion

\* C2 witness: OnStart has returned in a host of version 640.
C2_Witness ==
    /\ hostVersion = 640
    /\ pc = "returned"
    /\ Unsupported
    /\ calls = 0

\* C3: when InstallCallHook has returned, the byte at targetAddress is 0xE8
\* and the next 4 bytes are (pfnFunc - targetAddress - 5) mod 2^32, least
\* significant byte first, so that a processor executing the call site
\* arrives at pfnFunc; for 0x1000 -> 0x2000 the bytes are FB 0F 00 00, for
\* 0x4673bf -> 0x10 (a replacement below the target) 4C 8C B9 FF.
C3_CallEncoding ==
    pc = "hook_returned" =>
        /\ mem[targetAddress] = 232
        /\ LoadBytes(mem, Add32(targetAddress, W(0, 1)))
              = LittleEndian(Sub32(Sub32(pfnFunc, targetAddress), W(0, 5)))
        /\ CallDestination(mem, targetAddress) = pfnFunc
        /\ (targetAddress = W(0, 4096) /\ pfnFunc = W(0, 8192)) =>
              LoadBytes(mem, Add32(targetAddress, W(0, 1))) = <<251, 15, 0, 0>>
        /\ (targetAddress = W(70, 29631) /\ pfnFunc = W(0, 16)) =>
              LoadBytes(mem, Add32(targetAddress, W(0, 1))) = <<76, 140, 185, 255>>

\* C3 witness: the hook installed with the replacement below the target.
C3_Witness ==
    /\ pc = "hook_returned"
    /\ targetAddress = W(70, 29631)
    /\ pfnFunc = W(0, 16)
    /\ mem[targetAddress] = 232
    /\ mem[Add32(targetAddress, W(0, 4))] = 255

\* C4: every call of the replacement function returns true and no fault of
\* the diagnostic name read reaches the host, in the debug and the release
\* build.
C4_AlwaysReturnsTrue ==
    replCalls > 0 => replResult = "true"

\* C5 as claimed: when InstallCallHook exits, by return or by throw, the
\* pages covering the call site have the protection they had on entry.
C5_ProtectionRestoredOnExit ==
    pc \in {"hook_returned", "hook_threw"} =>
        \A g \in PagesOfRange(targetAddress, 5) : prot[g] = protAtEntry[g]

\* C5 amended: when InstallCallHook throws, every page has the protection it
\* had on entry; when it returns, the pages covering the call site are left
\* at PAGE_EXECUTE_READWRITE, the prior value is held only in oldProtect,
\* and every other page has the protection it had on entry.
C5_ProtectionLeftElevated ==
    /\ pc = "hook_threw" => prot = protAtEntry
    /\ pc = "hook_returned" =>
          /\ \A g \in PagesOfRange(targetAddress, 5) : prot[g] = 64
          /\ \A g \in Pages \ PagesOfRange(targetAddress, 5) : prot[g] = protAtEntry[g]
          /\ oldProtect = protAtEntry[PageOf(targetAddress)]

\* C5 witness: InstallCallHook has returned and the call site's page is
\* writable though it was not on entry.
C5_Witness ==
    /\ pc = "hook_returned"
    /\ protAtEntry[PageOf(targetAddress)] = 32
    /\ prot[PageOf(targetAddress)] = 64

\* C6: once OnStart has started the sequence it ends in exactly one of
\* Patched, Unsupported, Failed: Unsupported iff the version has no entry,
\* Patched iff the address was resolved and the protection change
\* succeeded, Failed iff it was resolved and the change failed; before the
\* end none of the three holds; no step leaves a terminal state, and once
\* Patched the call site keeps the hook.
C6_TerminalStates ==
    /\ [](pc # "NotStarted" => <>(pc = "returned" /\ Terminal))
    /\ [](Finished =>
            /\ (Unsupported <=> hostVersion # 641)
            /\ (Patched <=> (hostVersion = 641 /\ ProtectSucceeded))
            /\ (Failed <=> (hostVersion = 641 /\ ProtectFailed))
            /\ ~(Patched /\ Failed)
            /\ ~(Patched /\ Unsupported)
            /\ ~(Failed /\ Unsupported))
    /\ [](~Finished => ~Terminal)
    /\ [][/\ Patched => (Patched' /\ ~Failed' /\ ~Unsupported' /\ mem' = mem)
          /\ Failed => (Failed' /\ ~Patched' /\ ~Unsupported' /\ mem' = mem)
          /\ Unsupported => (Unsupported' /\ ~Patched' /\ ~Failed' /\ mem' = mem)]_vars

\* C6 witness: the host has gone on to use the hook after a Patched end.
C6_Witness ==
    /\ pc = "returned"
    /\ Patched
    /\ ProtectSucceeded
    /\ replCalls = 2

\* C7: once the switch has run, hookTargetAddress is 0x4673bf when the
\* version is 641 and 0 for every other uint16_t version, whatever else
\* the state holds.
C7_ResolveIsTableLookup ==
    pc \notin {"NotStarted", "Detecting", "Resolving"} =>
        hookTargetAddress = IF hostVersion = 641 THEN <<70, 29631>> ELSE <<0, 0>>

\* C7 witness: the switch has resolved version 641.
C7_Witness ==
    /\ pc = "Resolved"
    /\ gameVersion = 641
    /\ hookTargetAddress = <<70, 29631>>

\* C8: OnStart returns true whatever the outcome, and where the patch was
\* not installed the host's call site is as it was.
C8_OnStartReturnsTrue ==
    /\ (pc = "returned") <=> (onStartReturn # <<>>)
    /\ onStartReturn # <<>> => onStartReturn = <<TRUE>>
    /\ (pc = "returned" /\ ~Patched) =>
          /\ Failed \/ Unsupported
          /\ mem = origMem

\* C8 witness: OnStart has returned true after a failed installation.
C8_Witness ==
    /\ pc = "returned"
    /\ Failed
    /\ onStartReturn = <<TRUE>>

\* C9: a second InstallCallHook with the same arguments, both protection
\* changes granted, leaves the 5 bytes of the call site (and all of memory)
\* as the first call left them.
C9_SecondCallSameBytes ==
    (/\ pc = "hook_returned"
     /\ calls >= 2
     /\ protectRequests[1].ok
     /\ protectRequests[calls].ok) =>
        /\ \A a \in HookRange : mem[a] = memAfterFirstCall[a]
        /\ mem = memAfterFirstCall

\* C9 witness: the second call has returned over a first one that changed memory.
C9_Witness ==
    /\ pc = "hook_returned"
    /\ calls = 2
    /\ protectRequests[1].ok
    /\ protectRequests[2].ok
    /\ memAfterFirstCall # origMem

\* C10: InstallCallHook changes no byte outside targetAddress ..
\* targetAddress + 4, and asks VirtualProtect for exactly that range.
C10_OnlyFiveBytes ==
    /\ \A a \in MemAddrs \ HookRange : mem[a] = origMem[a]
    /\ \A i \in 1 .. Len(protectRequests) :
          /\ protectRequests[i].addr = targetAddress
          /\ protectRequests[i].size = 5
    /\ pc = "hook_returned" => writes = 5 * calls - 5 * Cardinality(
                                   {i \in 1 .. Len(protectRequests) : ~protectRequests[i].ok})

\* C10 witness: a call has returned having changed all 5 bytes of the call
\* site, with the neighbours at -1 and +5 as they were.
C10_Witness ==
    /\ pc = "hook_returned"
    /\ \A a \in HookRange : mem[a] # origMem[a]
    /\ mem[Sub32(targetAddress, W(0, 1))] = origMem[Sub32(targetAddress, W(0, 1))]
    /\ mem[Add32(targetAddress, W(0, 5))] = origMem[Add32(targetAddress, W(0, 5))]

====
